---------------------------- MODULE Spec2Model ----------------------------
(***************************************************************************)
(* A model of fpm, the minimal package manager of this repository:         *)
(*   - pkgmanager/fetch.go    resolveVersion, FetchPackageInfo             *)
(*   - utils/utils.go         installPackage, processPackageJson, ...      *)
(*   - handlers (concurrent)  HandleInstall                                *)
(*                                                                         *)
(* Strings are modelled as tuples of tokens, so that parsing and path      *)
(* building are computed, not assumed:                                     *)
(*   "1.2.0"   is <<"1","2","0">>      "^1.2.0" is <<"^","1","2","0">>     *)
(*   "latest"  is <<"latest">>         ""       is <<>>                    *)
(*   "@s/C"    is <<"@s","C">> (one token per path segment)                *)
(***************************************************************************)
EXTENDS Integers, Sequences, FiniteSets, TLC

(***************************************************************************)
(* Part 1.  Semantic versions and resolveVersion (pkgmanager/fetch.go)     *)
(***************************************************************************)

\* Largest version component used in the published version strings.
MaxVer == 2

\* Largest number of entries of a registry document's "versions" map.
MaxVersions == 3

Digits == {"0", "1", "2", "3", "4", "5", "6", "7", "8", "9"}

\* strconv of one decimal token.
DigitVal(d) ==
  CASE d = "0" -> 0 [] d = "1" -> 1 [] d = "2" -> 2 [] d = "3" -> 3
    [] d = "4" -> 4 [] d = "5" -> 5 [] d = "6" -> 6 [] d = "7" -> 7
    [] d = "8" -> 8 [] d = "9" -> 9

NoVersion == [ok |-> FALSE, major |-> 0, minor |-> 0, patch |-> 0]

\* semver.NewVersion: the lenient parser.  "1", "1.2" and "1.2.3" parse (missing
\* components are 0); anything else is an error.
NewVersion(s) ==
  IF Len(s) \in 1..3 /\ \A i \in 1..Len(s) : s[i] \in Digits
  THEN [ok    |-> TRUE,
        major |-> DigitVal(s[1]),
        minor |-> IF Len(s) >= 2 THEN DigitVal(s[2]) ELSE 0,
        patch |-> IF Len(s) >= 3 THEN DigitVal(s[3]) ELSE 0]
  ELSE NoVersion

\* (*Version).Compare: -1, 0 or 1, by major, then minor, then patch.
Compare(v, w) ==
  IF v.major # w.major THEN (IF v.major < w.major THEN -1 ELSE 1)
  ELSE IF v.minor # w.minor THEN (IF v.minor < w.minor THEN -1 ELSE 1)
  ELSE IF v.patch # w.patch THEN (IF v.patch < w.patch THEN -1 ELSE 1)
  ELSE 0

\* (*Version).GreaterThan
GreaterThan(v, w) == Compare(v, w) = 1

Operators == {"^", ">=", "="}

NoConstraint == [ok |-> FALSE, op |-> "", v |-> NoVersion]

\* semver.NewConstraint: "*" , a bare version (meaning "="), or an operator followed
\* by a version.  Anything else, the word "latest" included, is an error.
NewConstraint(r) ==
  IF r = <<"*">> THEN [ok |-> TRUE, op |-> "*", v |-> NoVersion]
  ELSE IF Len(r) >= 2 /\ r[1] \in Operators /\ NewVersion(Tail(r)).ok
       THEN [ok |-> TRUE, op |-> r[1], v |-> NewVersion(Tail(r))]
  ELSE IF NewVersion(r).ok THEN [ok |-> TRUE, op |-> "=", v |-> NewVersion(r)]
  ELSE NoConstraint

\* The exclusive upper end of a caret range: ^1.2.3 < 2.0.0, ^0.2.3 < 0.3.0,
\* ^0.0.3 < 0.0.4.
CaretUpper(v) ==
  IF v.major > 0 THEN [ok |-> TRUE, major |-> v.major + 1, minor |-> 0, patch |-> 0]
  ELSE IF v.minor > 0 THEN [ok |-> TRUE, major |-> 0, minor |-> v.minor + 1, patch |-> 0]
  ELSE [ok |-> TRUE, major |-> 0, minor |-> 0, patch |-> v.patch + 1]

\* (*Constraints).Check
Check(c, v) ==
  CASE c.op = "*"  -> TRUE
    [] c.op = "="  -> Compare(v, c.v) = 0
    [] c.op = ">=" -> Compare(v, c.v) >= 0
    [] c.op = "^"  -> Compare(v, c.v) >= 0 /\ Compare(v, CaretUpper(c.v)) < 0
    [] OTHER       -> FALSE

\* The comparator handed to sort.Slice: an entry that does not parse is "not less"
\* than anything, and nothing is "less" than it.
Less(a, b) ==
  LET vi == NewVersion(a)
      vj == NewVersion(b)
  IN  IF ~vi.ok THEN FALSE
      ELSE IF ~vj.ok THEN FALSE
      ELSE GreaterThan(vi, vj)

Swap(s, i, j) == [s EXCEPT ![i] = s[j], ![j] = s[i]]

\* The inner loop of insertion sort: for j := i; j > a && less(data[j], data[j-1]); j--
RECURSIVE SiftDown(_, _)
SiftDown(s, j) ==
  IF j > 1 /\ Less(s[j], s[j - 1]) THEN SiftDown(Swap(s, j, j - 1), j - 1) ELSE s

\* The outer loop: for i := a + 1; i < b; i++
RECURSIVE InsertionSortFrom(_, _)
InsertionSortFrom(s, i) ==
  IF i > Len(s) THEN s ELSE InsertionSortFrom(SiftDown(s, i), i + 1)

\* sort.Slice(versions, less): for slices of at most 12 elements the standard library
\* runs exactly this insertion sort.
SortSlice(s) == InsertionSortFrom(s, 2)

\* A variant of FirstMatch that falls back to the first entry when nothing matches.
RECURSIVE FirstMatchFallback(_, _, _)
FirstMatchFallback(s, i, c) ==
  IF i > Len(s)
  THEN (IF Len(s) > 0 THEN [ver |-> s[1], err |-> ""] ELSE [ver |-> <<>>, err |-> "nomatch"])
  ELSE IF NewVersion(s[i]).ok /\ Check(c, NewVersion(s[i]))
       THEN [ver |-> s[i], err |-> ""]
       ELSE FirstMatchFallback(s, i + 1, c)

\* The loop over the sorted versions: the first one that parses and satisfies the
\* constraint.
RECURSIVE FirstMatch(_, _, _)
FirstMatch(s, i, c) ==
  IF i > Len(s) THEN [ver |-> <<>>, err |-> "nomatch"]
  ELSE IF NewVersion(s[i]).ok /\ Check(c, NewVersion(s[i]))
       THEN [ver |-> s[i], err |-> ""]
       ELSE FirstMatch(s, i + 1, c)

Latest == <<"latest">>

\* A variant of resolveVersion without the "latest" shortcut.
resolveVersionIgnoreTag(metadata, versionRange) ==
  LET versions   == SortSlice(metadata.versions)
      constraint == NewConstraint(versionRange)
  IN  IF ~constraint.ok THEN [ver |-> <<>>, err |-> "invalid"]
      ELSE FirstMatch(versions, 1, constraint)

\* A registry document: hasTag/latest are dist-tags["latest"], versions are the keys of
\* the "versions" map in the order the map iteration yields them.
\* resolveVersion(metadata, versionRange)
resolveVersion(metadata, versionRange) ==
  IF versionRange = Latest /\ metadata.hasTag
  THEN [ver |-> metadata.latest, err |-> ""]
  ELSE LET versions   == SortSlice(metadata.versions)
           constraint == NewConstraint(versionRange)
       IN  IF ~constraint.ok THEN [ver |-> <<>>, err |-> "invalid"]
           ELSE FirstMatch(versions, 1, constraint)

\* FetchPackageInfo(packageName, version) on the registry's answer resp:
\* [status, metadata, dist], status the outcome of http.Get, metadata the decoded
\* document, dist the keys of its "versions" map whose entry carries a "dist" object
\* with the tarball URL and the checksum.  The result is [ver, dist, err]:
\* packageInfo.Version (the entry's "version" field, which is its key), whether
\* packageInfo.Dist holds the two fields, and the error.  When the "versions" map has no
\* entry for the resolved version, the empty PackageInfo is returned with no error.
FetchPackageInfo(resp, version) ==
  IF resp.status = "error" THEN [ver |-> <<>>, dist |-> FALSE, err |-> "get"]
  ELSE IF resp.status # "200 OK"
  THEN [ver |-> <<>>, dist |-> FALSE, err |-> "failed to fetch package info"]
  ELSE LET r == resolveVersion(resp.metadata, version)
       IN  IF r.err # "" THEN [ver |-> <<>>, dist |-> FALSE, err |-> r.err]
           ELSE IF \E i \in 1..Len(resp.metadata.versions) :
                     resp.metadata.versions[i] = r.ver
           THEN [ver |-> r.ver, dist |-> r.ver \in resp.dist, err |-> ""]
           ELSE [ver |-> <<>>, dist |-> FALSE, err |-> ""]


(***************************************************************************)
(* Part 2.  The install tree and its paths (utils/utils.go, extract.go)    *)
(***************************************************************************)

\* NodeModulesDir, cleaned by filepath.Join
NodeModulesDir == <<"node_modules">>

PackageJson == "package.json"

\* The package names of the model.  No name is a substring of another name, of
\* "node_modules" or of "package.json", so matching by whole path segments below is what
\* strings.Contains does on these names.
NameA == <<"A">>
NameB == <<"B">>
NameC == <<"@s", "C">>
Names == {NameA, NameB, NameC}

\* strings.HasPrefix(packageName, "@")
IsScoped(packageName) == packageName[1] \in {"@s"}

\* strings.SplitN(packageName, "/", 2) has two parts
HasSlash(packageName) == Len(packageName) >= 2

\* A variant of PackagePath that leaves the package name out of the path.
PackagePathRoot(packageName) == NodeModulesDir

\* installPackage, "Check if the package is installed": the directory whose existence
\* short-circuits the install.  filepath.Join(NodeModulesDir, parts[0], parts[1]) and
\* filepath.Join(NodeModulesDir, packageName) are the same path.
PackagePath(packageName) ==
  IF IsScoped(packageName) /\ HasSlash(packageName)
  THEN NodeModulesDir \o <<packageName[1]>> \o Tail(packageName)
  ELSE NodeModulesDir \o packageName

\* installPackage, "Extract": the destDir handed to ExtractTarball.
ExtractDir(packageName) ==
  IF IsScoped(packageName) /\ HasSlash(packageName)
  THEN NodeModulesDir \o <<packageName[1]>>
  ELSE NodeModulesDir

\* ExtractTarball: packageDir := filepath.Join(destDir, packageName)
PackageDir(destDir, packageName) == destDir \o packageName

\* os.MkdirAll(path): the path and every parent of it.
MkdirAll(path) == {SubSeq(path, 1, n) : n \in 1..Len(path)}

\* strings.Replace(packageName, "/", "/@", 1)
ReplaceSlash(packageName) ==
  IF HasSlash(packageName)
  THEN <<packageName[1], "@" \o packageName[2]>> \o Tail(Tail(packageName))
  ELSE packageName

\* strings.Contains(path, packageName), by whole segments.
Contains(path, packageName) ==
  \E i \in 0..(Len(path) - Len(packageName)) :
    SubSeq(path, i + 1, i + Len(packageName)) = packageName

\* findPackageJson: the three fixed candidates, then the walk of the install tree for a
\* package.json whose path contains the package name.  `files` is the set of package.json
\* files, each a record [dir, pkg]: the directory holding it and the package whose
\* manifest it is.  The result is the set of files the function may return (empty:
\* "package.json not found").
findPackageJson(files, packageName) ==
  LET c1 == NodeModulesDir \o packageName
      c2 == NodeModulesDir \o ReplaceSlash(packageName)
      c3 == NodeModulesDir \o ReplaceSlash(packageName) \o packageName
      at(d) == {f \in files : f.dir = d}
  IN  IF at(c1) # {} THEN at(c1)
      ELSE IF at(c2) # {} THEN at(c2)
      ELSE IF at(c3) # {} THEN at(c3)
      ELSE {f \in files : Contains(f.dir \o <<PackageJson>>, packageName)}

(***************************************************************************)
(* Part 2a.  DownloadPackage (pkgmanager/download.go)                      *)
(***************************************************************************)

\* The byte sequences a tarball URL may serve.
Bodies == {<<>>, <<"a">>, <<"b">>}

\* hasher.Sum(nil) after the body was copied through the hasher: the SHA-1 digest, of
\* which the model keeps the first two bytes.
Sha1(body) ==
  IF body = <<>> THEN <<218, 57>>
  ELSE IF body = <<"a">> THEN <<134, 247>>
  ELSE <<233, 215>>

HexDigits == <<"0", "1", "2", "3", "4", "5", "6", "7", "8", "9", "a", "b", "c", "d", "e", "f">>

\* fmt.Sprintf("%x", digest): two lower-case hexadecimal digits per byte.
RECURSIVE Hex(_)
Hex(bytes) ==
  IF bytes = <<>> THEN <<>>
  ELSE <<HexDigits[(Head(bytes) \div 16) + 1], HexDigits[(Head(bytes) % 16) + 1]>>
         \o Hex(Tail(bytes))

\* The responses of http.Get(tarballURL): a transport error, or a status and a body.
Responses == [status : {"error", "200 OK", "404 Not Found"}, body : Bodies]

\* A variant of DownloadPackage that does not compare the checksums.
DownloadPackageUnchecked(resp, expectedShasum) ==
  IF resp.status = "error" THEN [path |-> "", err |-> "get", written |-> FALSE]
  ELSE IF resp.status # "200 OK"
  THEN [path |-> "", err |-> "failed to download package", written |-> FALSE]
  ELSE [path |-> "destPath", err |-> "", written |-> TRUE]

\* DownloadPackage(tarballURL, expectedShasum, destDir) when tarballURL answers with
\* resp: the path and the error returned, and whether the file at destPath was written.
DownloadPackage(resp, expectedShasum) ==
  IF resp.status = "error" THEN [path |-> "", err |-> "get", written |-> FALSE]
  ELSE IF resp.status # "200 OK"
  THEN [path |-> "", err |-> "failed to download package", written |-> FALSE]
  ELSE IF Hex(Sha1(resp.body)) # expectedShasum
  THEN [path |-> "", err |-> "checksum mismatch", written |-> TRUE]
  ELSE [path |-> "destPath", err |-> "", written |-> TRUE]

\* packageInfo.Dist["shasum"] of every package of the model: the registry's digest of
\* the tarball it published, whose bytes are "a".
RegistryShasum == Hex(Sha1(<<"a">>))

(***************************************************************************)
(* Part 2b.  The project's package.json: ParsePackageJson,                 *)
(*           ParseDependencies, UpdatePackageJson (utils/utils.go)         *)
(*                                                                         *)
(* The file is the sequence of its top-level fields [key, kind, str, obj]: *)
(* kind "str" with the string literal str as it is written in the file (a  *)
(* sequence of tokens: "\\" is one backslash, "u0026" the five characters  *)
(* u0026, "&" an ampersand, anything else itself), or kind "obj" with the  *)
(* object obj, a sequence of [key, val] with val a string literal.         *)
(* Decoded, a document has the same shape with the strings' values.        *)
(***************************************************************************)

\* The value of the string literal s from token i on: "\\" "\\" is a backslash,
\* "\\" "u0026" is an ampersand, any other escape is a syntax error.
RECURSIVE DecodeString(_, _)
DecodeString(s, i) ==
  IF i > Len(s) THEN [ok |-> TRUE, val |-> <<>>]
  ELSE IF s[i] = "\\"
  THEN IF i = Len(s) \/ s[i + 1] \notin {"\\", "u0026"} THEN [ok |-> FALSE, val |-> <<>>]
       ELSE LET rest == DecodeString(s, i + 2)
            IN  [ok |-> rest.ok,
                 val |-> <<IF s[i + 1] = "\\" THEN "\\" ELSE "&">> \o rest.val]
  ELSE LET rest == DecodeString(s, i + 1)
       IN  [ok |-> rest.ok, val |-> <<s[i]>> \o rest.val]

\* The string literal the encoder writes for the value v: a backslash is escaped, and an
\* ampersand is written as & when the encoder escapes HTML.
RECURSIVE EncodeString(_, _)
EncodeString(v, escapeHTML) ==
  IF v = <<>> THEN <<>>
  ELSE (IF Head(v) = "\\" THEN <<"\\", "\\">>
        ELSE IF Head(v) = "&" /\ escapeHTML THEN <<"\\", "u0026">>
        ELSE <<Head(v)>>) \o EncodeString(Tail(v), escapeHTML)

\* bytes.ReplaceAll(data, []byte("\\u0026"), []byte("&")) on one string literal, from
\* token i on.
RECURSIVE ReplaceAll(_, _)
ReplaceAll(s, i) ==
  IF i > Len(s) THEN <<>>
  ELSE IF s[i] = "\\" /\ i < Len(s) /\ s[i + 1] = "u0026"
  THEN <<"&">> \o ReplaceAll(s, i + 2)
  ELSE <<s[i]>> \o ReplaceAll(s, i + 1)

\* decoder.Decode over a file: every string literal replaced by its value.
DecodeDoc(file) ==
  [i \in 1..Len(file) |->
     [key |-> file[i].key, kind |-> file[i].kind, str |-> DecodeString(file[i].str, 1).val,
      obj |-> [j \in 1..Len(file[i].obj) |->
                 [key |-> file[i].obj[j].key,
                  val |-> DecodeString(file[i].obj[j].val, 1).val]]]]

\* encoder.Encode over a document, then bytes.ReplaceAll over the output: every string
\* value replaced by the literal that is written.
EncodeDoc(doc, escapeHTML) ==
  [i \in 1..Len(doc) |->
     [key |-> doc[i].key, kind |-> doc[i].kind,
      str |-> ReplaceAll(EncodeString(doc[i].str, escapeHTML), 1),
      obj |-> [j \in 1..Len(doc[i].obj) |->
                 [key |-> doc[i].obj[j].key,
                  val |-> ReplaceAll(EncodeString(doc[i].obj[j].val, escapeHTML), 1)]]]]

\* The string literals of a document.
StringsOf(doc) ==
  {doc[i].str : i \in 1..Len(doc)}
    \cup UNION {{doc[i].obj[j].val : j \in 1..Len(doc[i].obj)} : i \in 1..Len(doc)}

\* ParsePackageJson(pathToJSON): decoder.Decode into an ordered map.
ParsePackageJson(file) ==
  IF \A s \in StringsOf(file) : DecodeString(s, 1).ok
  THEN [doc |-> DecodeDoc(file), err |-> ""]
  ELSE [doc |-> <<>>, err |-> "failed to decode JSON"]

\* (*OrderedMap).Get: the index of key, 0 when the map has no such key.
IndexOf(m, key) ==
  IF \E i \in 1..Len(m) : m[i].key = key THEN CHOOSE i \in 1..Len(m) : m[i].key = key
  ELSE 0

\* (*OrderedMap).Set: an existing key keeps its place, a new key goes last.
Set(m, entry) ==
  IF IndexOf(m, entry.key) # 0 THEN [m EXCEPT ![IndexOf(m, entry.key)] = entry]
  ELSE Append(m, entry)

\* ParseDependencies(packageJson, dependencyType): the document, with an empty section
\* set when it had none, the section found, and the error when the field is no object.
ParseDependencies(doc, dependencyType) ==
  LET d == IF IndexOf(doc, dependencyType) = 0
           THEN Append(doc, [key |-> dependencyType, kind |-> "obj", str |-> <<>>,
                             obj |-> <<>>])
           ELSE doc
      deps == d[IndexOf(d, dependencyType)]
  IN  IF deps.kind = "obj" THEN [doc |-> d, depsMap |-> deps.obj, err |-> ""]
      ELSE [doc |-> d, depsMap |-> <<>>, err |-> "unexpected type for dependencies"]

\* The byte a package name starts with; the names of the model differ in it.
FirstByte(name) == IF name[1] = "@s" THEN 64 ELSE IF name[1] = "A" THEN 65 ELSE 66

\* sort.Strings(keys), keys being distinct package names.
SortStrings(keys) ==
  CHOOSE s \in [1..Len(keys) -> {keys[i] : i \in 1..Len(keys)}] :
    \A i, j \in 1..Len(keys) : i < j => FirstByte(s[i]) < FirstByte(s[j])

\* UpdatePackageJson(pathToJSON, newDependencies, forDev) with one new dependency: the
\* file as it is left, and the error.  escapeHTML: whether the ordered map's encoder
\* escapes HTML characters.
UpdatePackageJson(file, newDependencies, forDev, escapeHTML) ==
  LET dependencyKey == IF forDev THEN "devDependencies" ELSE "dependencies"
      parsed == ParsePackageJson(file)
      deps == ParseDependencies(parsed.doc, dependencyKey)
      depsMap == Set(deps.depsMap, [key |-> newDependencies.name,
                                    val |-> newDependencies.version])
      keys == SortStrings([i \in 1..Len(depsMap) |-> depsMap[i].key])
      sortedDeps == [i \in 1..Len(keys) |-> depsMap[IndexOf(depsMap, keys[i])]]
      doc == Set(deps.doc, [key |-> dependencyKey, kind |-> "obj", str |-> <<>>,
                            obj |-> sortedDeps])
  IN  IF parsed.err # "" THEN [file |-> file, err |-> parsed.err]
      ELSE IF deps.err # "" THEN [file |-> file, err |-> deps.err]
      ELSE [file |-> EncodeDoc(doc, escapeHTML), err |-> ""]

(***************************************************************************)
(* Part 3.  The dependency graph (graph.New(..., Directed(), PreventCycles())) *)
(***************************************************************************)

\* The vertices reachable from `from` along edges of E, `from` included.
RECURSIVE ReachFrom(_, _)
ReachFrom(E, seen) ==
  LET next == seen \cup {e[2] : e \in {x \in E : x[1] \in seen}}
  IN  IF next = seen THEN seen ELSE ReachFrom(E, next)

\* The cycle check of AddEdge under PreventCycles: the edge source -> target closes a
\* cycle when source = target or source is reachable from target.
CreatesCycle(E, source, target) ==
  source = target \/ source \in ReachFrom(E, {target})

\* AddEdge's checks, made before the edge is inserted: "" when the edge may be added,
\* otherwise the error.
AddEdgeCheck(g, source, target) ==
  IF source \notin g.V \/ target \notin g.V THEN "vertex not found"
  ELSE IF <<source, target>> \in g.E THEN "edge already exists"
  ELSE IF CreatesCycle(g.E, source, target) THEN "edge would create a cycle"
  ELSE ""

\* AddVertex; ErrVertexAlreadyExists is ignored by every caller.
AddVertex(g, name) == [g EXCEPT !.V = @ \cup {name}]

\* The insertion that ends AddEdge.
InsertEdge(g, source, target) == [g EXCEPT !.E = @ \cup {<<source, target>>}]

EmptyGraph == [V |-> {}, E |-> {}]


(***************************************************************************)
(* Part 4.  One install run: HandleInstall, RunInstallPackage,             *)
(*          installPackage, processPackageJson                             *)
(***************************************************************************)

\* Largest number of direct dependencies (dependencies and devDependencies entries
\* together) of the project manifest: one goroutine each.
MaxTasks == 2

\* Largest number of dependencies a package manifest declares.
MaxDeps == 1

Caret1 == <<"^", "1", "0", "0">>
Caret9 == <<"^", "9", "0", "0">>

\* The version ranges the project manifest may ask for.
TaskRanges == {Latest, Caret9}

\* The range every package manifest of the model declares for its dependencies.
DeclRange == Caret1

\* The registry document served for every package of the model.
RegistryDoc ==
  [hasTag |-> TRUE, latest |-> <<"2", "0", "0">>,
   versions |-> << <<"1", "0", "0">>, <<"2", "0", "0">>, <<"1", "1", "0">> >>]

VARIABLES
  decl,               \* world: package name -> the names its manifest declares
  tasks,              \* world: the direct dependencies, records [name, range, dev]
  tree,               \* the directories of the install tree
  files,              \* the package.json files of the install tree, [dir, pkg, ver]
  installingPackages, \* utils.installingPackages (guarded by installMutex)
  depGraph,           \* the dependency graph, [V, E]
  visited,            \* task -> the visited map RunInstallPackage made for it
  stack,              \* task -> its stack of installPackage frames, innermost last
  result,             \* task -> what RunInstallPackage returned, and the task's position
  errChan,            \* HandleInstall's errChan (capacity 1)
  closed,             \* whether errChan was closed
  main,               \* HandleInstall: [pc, err]
  resolved,           \* package name -> calls of FetchPackageInfo in this run
  fetched,            \* package name -> calls of DownloadPackage in this run
  extracted,          \* package name -> calls of ExtractTarball in this run
  failures,           \* the names for which one of these calls failed in this run
  run,                \* the number of the current install run
  firstRun,           \* what the first run returned: "" while it runs, "ok" or "error"
  resolveIn,          \* resolveVersion's arguments (specification SpecResolve)
  resolveOut,         \* resolveVersion's result
  manifest,           \* the project's package.json as the file stands on disk
  callIn,             \* the function called on its own, and its arguments
  callOut             \* that call's result

world   == <<decl, tasks>>
disk    == <<tree, files>>
calls   == <<resolved, fetched, extracted, failures>>
chan    == <<errChan, closed, main>>
runs    == <<run, firstRun>>
resolve == <<resolveIn, resolveOut>>
side    == <<manifest, callIn, callOut>>
vars == <<decl, tasks, tree, files, installingPackages, depGraph, visited, stack,
          result, errChan, closed, main, resolved, fetched, extracted, failures, run,
          firstRun,
          resolveIn, resolveOut, manifest, callIn, callOut>>

\* The capacity of errChan: make(chan error, 1)
ErrChanCap == 1

\* The frame of a call installPackage(name, range, depGraph, visited).
\*   pc "enter": before installMutex.Lock()
\*      "fetch": marker set, not visited, not on disk: before FetchPackageInfo
\*      "deps" : in processPackageJson's loop, `todo` are the entries not yet ranged over
\*      "edge" : inside AddEdge(name, cur), the checks passed, before the insertion
\*      "ret"  : at a return statement, the deferred marker removal not yet run
\* ver and err are what the call is about to return.  dups is history, not program
\* state: the strings returned, while this call held the marker, to calls of other
\* goroutines for the same name that found the marker set.
NewFrame(name, range) ==
  [name |-> name, range |-> range, pc |-> "enter", todo |-> {}, cur |-> <<>>,
   ver |-> <<>>, err |-> "", dups |-> {}]

Top(t) == stack[t][Len(stack[t])]

Running(t) == stack[t] # <<>>

SetTop(t, f) == [stack EXCEPT ![t] = [@ EXCEPT ![Len(@)] = f]]

\* result[t]: the task's position ("run": inside RunInstallPackage, "send": blocked on
\* errChan <- err, "done": returned), and the most recent return of an installPackage
\* call of the task: its arguments, its two results, and whether it returned at the
\* in-progress guard ("Already being installed").
NoResult ==
  [pc |-> "run", name |-> <<>>, range |-> <<>>, ver |-> <<>>, err |-> "", busy |-> FALSE]

\* The project manifests of the model: at most MaxTasks entries; a name is a key of
\* devDependencies (dev) only if it is also one of dependencies, the two sections being
\* handled alike.
TaskSets ==
  LET all == [name : Names, range : TaskRanges, dev : BOOLEAN]
      ok(S) == /\ S # {}
               /\ \A a, b \in S : (a.name = b.name /\ a.dev = b.dev) => a = b
               /\ \A a \in S : a.dev => \E b \in S : b.name = a.name /\ ~b.dev
  IN  {S \in SUBSET all : Cardinality(S) <= MaxTasks /\ ok(S)}

\* The declaration graphs of the model.
Decls == {d \in [Names -> SUBSET Names] : \A n \in Names : Cardinality(d[n]) <= MaxDeps}

\* The names a run can ask for: the direct dependencies and what they declare,
\* transitively.
Wanted(d, ts) ==
  ReachFrom({e \in Names \X Names : e[2] \in d[e[1]]}, {t.name : t \in ts})

\* The state of a fresh process that has entered HandleInstall and spawned one goroutine
\* per direct dependency; each goroutine is about to call installPackage from
\* RunInstallPackage with a visited map of its own.
FreshProcess(ts) ==
  /\ installingPackages = {}
  /\ depGraph = EmptyGraph
  /\ visited = [t \in ts |-> {}]
  /\ stack = [t \in ts |-> <<NewFrame(t.name, t.range)>>]
  /\ result = [t \in ts |-> NoResult]
  /\ errChan = <<>>
  /\ closed = FALSE
  /\ main = [pc |-> "range", err |-> ""]
  /\ resolved = [n \in Names |-> 0]
  /\ fetched = [n \in Names |-> 0]
  /\ extracted = [n \in Names |-> 0]
  /\ failures = {}

\* No function is called on its own, and the project manifest is not written.
NoCall ==
  /\ manifest = <<>>
  /\ callIn = [fn |-> ""]
  /\ callOut = [done |-> TRUE]

NoResolve ==
  /\ resolveIn = [metadata |-> [hasTag |-> FALSE, latest |-> <<>>, versions |-> <<>>],
                  range |-> <<>>]
  /\ resolveOut = [done |-> TRUE, ver |-> <<>>, err |-> ""]

Init ==
  /\ tasks \in TaskSets
  /\ decl \in {d \in Decls : \A n \in Names \ Wanted(d, tasks) : d[n] = {}}
  /\ tree = {NodeModulesDir}
  /\ files = {}
  /\ FreshProcess(tasks)
  /\ run = 1
  /\ firstRun = ""
  /\ NoResolve
  /\ NoCall


\* A variant of Return in which processPackageJson returns the error of the nested call,
\* and with it the parent installPackage call.
ReturnFatal(t, ver, err, busy, stk) ==
  LET f == Top(t)
      top == Len(stack[t]) = 1
      rest == SubSeq(stk[t], 1, Len(stk[t]) - 1)
  IN  /\ stack' = [stk EXCEPT ![t] =
                      IF ~top /\ err # ""
                      THEN [rest EXCEPT ![Len(rest)] =
                              [rest[Len(rest)] EXCEPT !.pc = "ret", !.ver = <<>>,
                                                      !.err = err]]
                      ELSE rest]
      /\ result' = [result EXCEPT ![t] =
                      [pc    |-> IF ~top THEN "run" ELSE IF err # "" THEN "send" ELSE "done",
                       name  |-> f.name, range |-> f.range,
                       ver   |-> ver, err |-> err, busy |-> busy]]

\* The installPackage call at the top of task t returns (ver, err): its frame is popped;
\* processPackageJson logs and drops the results, RunInstallPackage hands them to the
\* goroutine, which sends a non-nil error to errChan.
Return(t, ver, err, busy, stk) ==
  LET f == Top(t)
      top == Len(stack[t]) = 1
  IN  /\ stack' = [stk EXCEPT ![t] = SubSeq(@, 1, Len(@) - 1)]
      /\ result' = [result EXCEPT ![t] =
                      [pc    |-> IF ~top THEN "run" ELSE IF err # "" THEN "send" ELSE "done",
                       name  |-> f.name, range |-> f.range,
                       ver   |-> ver, err |-> err, busy |-> busy]]

\* A variant of AlreadyInstalling that never finds the marker.
AlreadyInstallingNever(packageName) == FALSE

\* installingPackages[packageName]
AlreadyInstalling(packageName) == packageName \in installingPackages

\* os.Stat(packagePath) succeeds
Installed(packageName) == PackagePath(packageName) \in tree

\* The stack with `ver` noted in the frames of other goroutines that hold the marker of
\* `name` (history only).
NoteDup(t, name, ver) ==
  [u \in tasks |->
     IF u = t THEN stack[u]
     ELSE [i \in 1..Len(stack[u]) |->
             IF stack[u][i].name = name /\ stack[u][i].pc # "enter"
             THEN [stack[u][i] EXCEPT !.dups = @ \cup {ver}]
             ELSE stack[u][i]]]

\* A variant of EnterBusy that answers with the version the registry resolves.
EnterBusyResolved(t) ==
  /\ Running(t) /\ Top(t).pc = "enter"
  /\ Top(t).name \in installingPackages
  /\ Return(t, resolveVersion(RegistryDoc, Top(t).range).ver, "", TRUE,
            NoteDup(t, Top(t).name, resolveVersion(RegistryDoc, Top(t).range).ver))
  /\ UNCHANGED <<world, disk, installingPackages, depGraph, visited, chan, calls, runs,
                 resolve, side>>

\* A variant of EnterBusy whose early return runs the deferred marker removal.
EnterBusyDeleting(t) ==
  /\ Running(t) /\ Top(t).pc = "enter"
  /\ Top(t).name \in installingPackages
  /\ installingPackages' = installingPackages \ {Top(t).name}
  /\ Return(t, Top(t).range, "", TRUE, NoteDup(t, Top(t).name, Top(t).range))
  /\ UNCHANGED <<world, disk, depGraph, visited, chan, calls, runs, resolve, side>>

\* installPackage, the guard: the name is being installed, return the requested range.
EnterBusy(t) ==
  /\ Running(t) /\ Top(t).pc = "enter"
  /\ AlreadyInstalling(Top(t).name)
  /\ Return(t, Top(t).range, "", TRUE, NoteDup(t, Top(t).name, Top(t).range))
  /\ UNCHANGED <<world, disk, installingPackages, depGraph, visited, chan, calls, runs,
                 resolve, side>>

\* installPackage from the lock to the installed check: set the marker; a visited name
\* or a package directory that exists goes to `return packageVersion, nil`.
Enter(t) ==
  /\ Running(t) /\ Top(t).pc = "enter"
  /\ ~AlreadyInstalling(Top(t).name)
  /\ LET f == Top(t) IN
       /\ installingPackages' = installingPackages \cup {f.name}
       /\ IF f.name \in visited[t]
          THEN /\ stack' = SetTop(t, [f EXCEPT !.pc = "ret", !.ver = f.range])
               /\ UNCHANGED <<visited, depGraph>>
          ELSE /\ visited' = [visited EXCEPT ![t] = @ \cup {f.name}]
               /\ IF Installed(f.name)
                  THEN /\ depGraph' = AddVertex(depGraph, f.name)
                       /\ stack' = SetTop(t, [f EXCEPT !.pc = "ret", !.ver = f.range])
                  ELSE /\ stack' = SetTop(t, [f EXCEPT !.pc = "fetch"])
                       /\ UNCHANGED depGraph
  /\ UNCHANGED <<world, disk, result, chan, calls, runs, resolve, side>>

\* What the registry answers for every package of the model: RegistryDoc, every entry
\* with its "dist" object.
Registry(packageName) ==
  [status |-> "200 OK", metadata |-> RegistryDoc,
   dist |-> {RegistryDoc.versions[i] : i \in 1..Len(RegistryDoc.versions)}]

AtFetch(t) == Running(t) /\ Top(t).pc = "fetch"

Bump(count, name) == [count EXCEPT ![name] = @ + 1]

\* FetchPackageInfo fails (the request fails, or resolveVersion returns an error):
\* return "", "failed to fetch package info".
ResolveFail(t) ==
  /\ AtFetch(t)
  /\ LET f == Top(t) IN
       /\ resolved' = Bump(resolved, f.name)
       /\ failures' = failures \cup {f.name}
       /\ stack' = SetTop(t, [f EXCEPT !.pc = "ret", !.err = "resolve"])
  /\ UNCHANGED <<world, disk, installingPackages, depGraph, visited, result, chan,
                 fetched, extracted, runs, resolve, side>>

\* DownloadPackage fails (request, status or checksum): return "", "failed to download
\* package".  The frame keeps apart the checksum mismatch from the other failures.
DownloadFail(t) ==
  /\ AtFetch(t)
  /\ LET f == Top(t) IN
       /\ FetchPackageInfo(Registry(f.name), f.range).err = ""
       /\ resolved' = Bump(resolved, f.name)
       /\ fetched' = Bump(fetched, f.name)
       /\ failures' = failures \cup {f.name}
       /\ \E e \in {IF DownloadPackage(resp, RegistryShasum).err = "checksum mismatch"
                     THEN "checksum" ELSE "download" :
                     resp \in {x \in Responses :
                                 DownloadPackage(x, RegistryShasum).err # ""}} :
            stack' = SetTop(t, [f EXCEPT !.pc = "ret", !.err = e])
  /\ UNCHANGED <<world, disk, installingPackages, depGraph, visited, result, chan,
                 extracted, runs, resolve, side>>

\* ExtractTarball fails: either MkdirAll(packageDir) failed, or the package directory was
\* made and opening or reading the archive failed.  (Entries written before the failure
\* stay on disk; nothing reads them before the directory is extracted into again.)
ExtractFail(t) ==
  /\ AtFetch(t)
  /\ LET f == Top(t)
         packageDir == PackageDir(ExtractDir(f.name), f.name)
     IN
       /\ FetchPackageInfo(Registry(f.name), f.range).err = ""
       /\ \E resp \in Responses : DownloadPackage(resp, RegistryShasum).err = ""
       /\ resolved' = Bump(resolved, f.name)
       /\ fetched' = Bump(fetched, f.name)
       /\ extracted' = Bump(extracted, f.name)
       /\ \E made \in BOOLEAN :
            tree' = IF made THEN tree \cup MkdirAll(packageDir) ELSE tree
       /\ failures' = failures \cup {f.name}
       /\ stack' = SetTop(t, [f EXCEPT !.pc = "ret", !.err = "extract"])
  /\ UNCHANGED <<world, files, installingPackages, depGraph, visited, result, chan, runs,
                 resolve, side>>

\* Resolve, download and extract succeed; the vertex is added; findPackageJson either
\* finds no manifest (return actualVersion) or processPackageJson starts on the
\* dependencies the manifest declares.
Install(t) ==
  /\ AtFetch(t)
  /\ LET f == Top(t)
         info == FetchPackageInfo(Registry(f.name), f.range)
         packageDir == PackageDir(ExtractDir(f.name), f.name)
     IN
       /\ info.err = ""
       /\ \E resp \in Responses : DownloadPackage(resp, RegistryShasum).err = ""
       /\ resolved' = Bump(resolved, f.name)
       /\ fetched' = Bump(fetched, f.name)
       /\ extracted' = Bump(extracted, f.name)
       /\ tree' = tree \cup MkdirAll(packageDir)
       /\ \E hasJson \in BOOLEAN :
            /\ files' = IF hasJson
                        THEN {x \in files : x.dir # packageDir}
                               \cup {[dir |-> packageDir, pkg |-> f.name, ver |-> info.ver]}
                        ELSE files
            /\ IF findPackageJson(files', f.name) = {}
               THEN stack' = SetTop(t, [f EXCEPT !.pc = "ret", !.ver = info.ver])
               ELSE \E m \in findPackageJson(files', f.name) :
                      stack' = SetTop(t, [f EXCEPT !.pc = "deps", !.ver = info.ver,
                                                   !.todo = decl[m.pkg]])
       /\ depGraph' = AddVertex(depGraph, f.name)
  /\ UNCHANGED <<world, installingPackages, visited, result, chan, failures, runs,
                 resolve, side>>

\* A variant of DepNext in which a rejected edge ends the loop with an error.
DepNextFatal(t) ==
  /\ Running(t) /\ Top(t).pc = "deps" /\ Top(t).todo # {}
  /\ LET f == Top(t) IN
       \E depName \in f.todo :
         LET g == AddVertex(depGraph, depName) IN
           /\ depGraph' = g
           /\ IF AddEdgeCheck(g, f.name, depName) # ""
              THEN stack' = SetTop(t, [f EXCEPT !.pc = "ret", !.ver = <<>>,
                                                !.err = "edge"])
              ELSE stack' = SetTop(t, [f EXCEPT !.todo = @ \ {depName}, !.pc = "edge",
                                                !.cur = depName])
  /\ UNCHANGED <<world, disk, installingPackages, visited, result, chan, calls, runs,
                 resolve, side>>

\* processPackageJson, one iteration up to the end of AddEdge's checks: AddVertex(depName),
\* then the checks; every rejection `continue`s with the next entry.
DepNext(t) ==
  /\ Running(t) /\ Top(t).pc = "deps" /\ Top(t).todo # {}
  /\ LET f == Top(t) IN
       \E depName \in f.todo :
         LET g == AddVertex(depGraph, depName) IN
           /\ depGraph' = g
           /\ IF AddEdgeCheck(g, f.name, depName) # ""
              THEN stack' = SetTop(t, [f EXCEPT !.todo = @ \ {depName}])
              ELSE stack' = SetTop(t, [f EXCEPT !.todo = @ \ {depName}, !.pc = "edge",
                                                !.cur = depName])
  /\ UNCHANGED <<world, disk, installingPackages, visited, result, chan, calls, runs,
                 resolve, side>>

\* The edge is inserted and installPackage(depName, depVersion, depGraph, visited) is
\* called.
EdgeAdd(t) ==
  /\ Running(t) /\ Top(t).pc = "edge"
  /\ LET f == Top(t) IN
       /\ depGraph' = InsertEdge(depGraph, f.name, f.cur)
       /\ stack' = [SetTop(t, [f EXCEPT !.pc = "deps", !.cur = <<>>])
                      EXCEPT ![t] = Append(@, NewFrame(f.cur, DeclRange))]
  /\ UNCHANGED <<world, disk, installingPackages, visited, result, chan, calls, runs,
                 resolve, side>>

\* A variant of Leave without the deferred marker removal.
LeaveKeepingMarker(t) ==
  /\ Running(t)
  /\ Top(t).pc = "ret" \/ (Top(t).pc = "deps" /\ Top(t).todo = {})
  /\ Return(t, Top(t).ver, Top(t).err, FALSE, stack)
  /\ UNCHANGED <<world, disk, installingPackages, depGraph, visited, chan, calls, runs,
                 resolve, side>>

\* A call that set the marker returns: the deferred function deletes the marker.
Leave(t) ==
  /\ Running(t)
  /\ Top(t).pc = "ret" \/ (Top(t).pc = "deps" /\ Top(t).todo = {})
  /\ installingPackages' = installingPackages \ {Top(t).name}
  /\ Return(t, Top(t).ver, Top(t).err, FALSE, stack)
  /\ UNCHANGED <<world, disk, depGraph, visited, chan, calls, runs, resolve, side>>

\* errChan <- err
Send(t) ==
  /\ result[t].pc = "send"
  /\ Len(errChan) < ErrChanCap
  /\ errChan' = Append(errChan, result[t].err)
  /\ result' = [result EXCEPT ![t].pc = "done"]
  /\ UNCHANGED <<world, disk, installingPackages, depGraph, visited, stack, closed, main,
                 calls, runs, resolve, side>>

\* A variant of CloseChan that does not wait for the goroutines.
CloseChanEarly ==
  /\ ~closed
  /\ closed' = TRUE
  /\ UNCHANGED <<world, disk, installingPackages, depGraph, visited, stack, result,
                 errChan, main, calls, runs, resolve, side>>

\* go func() { wg.Wait(); close(errChan) }()
CloseChan ==
  /\ ~closed
  /\ \A t \in tasks : result[t].pc = "done"
  /\ closed' = TRUE
  /\ UNCHANGED <<world, disk, installingPackages, depGraph, visited, stack, result,
                 errChan, main, calls, runs, resolve, side>>

RunEnds(outcome) ==
  /\ firstRun' = IF run = 1 THEN outcome ELSE firstRun
  /\ UNCHANGED run

\* for err := range errChan { if err != nil { return err } }
MainRecv ==
  /\ main.pc = "range"
  /\ errChan # <<>>
  /\ main' = [pc |-> "returned", err |-> Head(errChan)]
  /\ errChan' = Tail(errChan)
  /\ RunEnds("error")
  /\ UNCHANGED <<world, disk, installingPackages, depGraph, visited, stack, result,
                 closed, calls, resolve, side>>

\* The range loop ends on the closed, drained channel: return nil.
MainEnd ==
  /\ main.pc = "range"
  /\ errChan = <<>> /\ closed
  /\ main' = [pc |-> "returned", err |-> ""]
  /\ RunEnds("ok")
  /\ UNCHANGED <<world, disk, installingPackages, depGraph, visited, stack, result,
                 errChan, closed, calls, resolve, side>>

\* Each step of a goroutine, taken by any of them.
SomeEnterBusy == \E t \in tasks : EnterBusy(t)

SomeEnter == \E t \in tasks : Enter(t)

SomeResolveFail == \E t \in tasks : ResolveFail(t)

SomeDownloadFail == \E t \in tasks : DownloadFail(t)

SomeExtractFail == \E t \in tasks : ExtractFail(t)

SomeInstall == \E t \in tasks : Install(t)

SomeDepNext == \E t \in tasks : DepNext(t)

SomeEdgeAdd == \E t \in tasks : EdgeAdd(t)

SomeLeave == \E t \in tasks : Leave(t)

SomeSend == \E t \in tasks : Send(t)

Next ==
  \/ SomeEnterBusy
  \/ SomeEnter
  \/ SomeResolveFail
  \/ SomeDownloadFail
  \/ SomeExtractFail
  \/ SomeInstall
  \/ SomeDepNext
  \/ SomeEdgeAdd
  \/ SomeLeave
  \/ SomeSend
  \/ CloseChan
  \/ MainRecv
  \/ MainEnd

Spec == Init /\ [][Next]_vars


(***************************************************************************)
(* Part 5.  resolveVersion on its own: every registry document and range   *)
(*          of the bounded sets below.                                     *)
(***************************************************************************)

Tok(i) == CHOOSE d \in Digits : DigitVal(d) = i

\* The version strings a registry document may publish: full versions M.m.0, the short
\* form "1" (which parses as 1.0.0) and "next" (which does not parse).
Published ==
  {<<Tok(a), Tok(b), "0">> : a \in 1..MaxVer, b \in 0..1} \cup {<<"1">>, <<"next">>}

\* The keys of a "versions" map in an order the map iteration may yield: no key twice.
VersionLists ==
  {s \in UNION {[1..n -> Published] : n \in 0..MaxVersions} :
     \A i, j \in 1..Len(s) : i # j => s[i] # s[j]}

\* The ranges asked for: "latest", "*", a bare version, operator ranges, and two that
\* do not parse.
RangeVersions ==
  {<<"1", "0", "0">>, <<"1", "1", "0">>, <<"2", "0", "0">>, <<"9", "0", "0">>}

Ranges ==
  {Latest, <<"*">>, <<"next">>, <<"^">>} \cup RangeVersions
    \cup {<<op>> \o v : op \in Operators, v \in RangeVersions}

\* dist-tags: no "latest" tag, or one naming a published version.
Documents ==
  {[hasTag |-> FALSE, latest |-> <<>>, versions |-> s] : s \in VersionLists}
    \cup UNION {{[hasTag |-> TRUE, latest |-> s[i], versions |-> s] : i \in 1..Len(s)}
                  : s \in VersionLists}

\* No install run is going on: the variables of Part 4 stay as they are.
Idle ==
  /\ decl = [n \in Names |-> {}]
  /\ tasks = {}
  /\ tree = {NodeModulesDir}
  /\ files = {}
  /\ installingPackages = {}
  /\ depGraph = EmptyGraph
  /\ visited = << >>
  /\ stack = << >>
  /\ result = << >>
  /\ errChan = <<>>
  /\ closed = TRUE
  /\ main = [pc |-> "returned", err |-> ""]
  /\ resolved = [n \in Names |-> 0]
  /\ fetched = [n \in Names |-> 0]
  /\ extracted = [n \in Names |-> 0]
  /\ failures = {}
  /\ run = 1
  /\ firstRun = ""

InitResolve ==
  /\ Idle
  /\ NoCall
  /\ resolveIn \in [metadata : Documents, range : Ranges]
  /\ resolveOut = [done |-> FALSE, ver |-> <<>>, err |-> ""]

\* resolvedVersion, err := resolveVersion(metadata, version)
ResolveCall ==
  /\ ~resolveOut.done
  /\ LET r == resolveVersion(resolveIn.metadata, resolveIn.range)
     IN  resolveOut' = [done |-> TRUE, ver |-> r.ver, err |-> r.err]
  /\ UNCHANGED <<world, disk, installingPackages, depGraph, visited, stack, result, chan,
                 calls, runs, resolveIn, side>>

NextResolve == ResolveCall

SpecResolve == InitResolve /\ [][NextResolve]_vars


(***************************************************************************)
(* Part 6.  Install runs one after another over the same install tree.     *)
(***************************************************************************)

\* Largest number of install runs over the same manifest and install tree.
MaxRuns == 2

\* HandleInstall has returned and the process has ended; `fpm install` is run again:
\* a fresh process over the install tree as the previous run left it.
Rerun ==
  /\ main.pc = "returned"
  /\ run < MaxRuns
  /\ run' = run + 1
  /\ installingPackages' = {}
  /\ depGraph' = EmptyGraph
  /\ visited' = [t \in tasks |-> {}]
  /\ stack' = [t \in tasks |-> <<NewFrame(t.name, t.range)>>]
  /\ result' = [t \in tasks |-> NoResult]
  /\ errChan' = <<>>
  /\ closed' = FALSE
  /\ main' = [pc |-> "range", err |-> ""]
  /\ resolved' = [n \in Names |-> 0]
  /\ fetched' = [n \in Names |-> 0]
  /\ extracted' = [n \in Names |-> 0]
  /\ failures' = {}
  /\ UNCHANGED <<world, disk, firstRun, resolve, side>>

NextRerun == Next \/ Rerun

SpecRerun == Init /\ [][NextRerun]_vars


\* The scheduler runs every goroutine that can take a step.
SpecFair == Init /\ [][Next]_vars /\ WF_vars(Next)

(***************************************************************************)
(* Part 6a.  Functions called on their own: ParsePackageArg, run,          *)
(*           DownloadPackage, ExtractTarball, UpdatePackageJson.           *)
(*           callIn holds the function's name and arguments, callOut its   *)
(*           results.                                                      *)
(***************************************************************************)

\* The variables of Parts 4 and 5 while a function is called on its own.
InitCall ==
  /\ Idle
  /\ NoResolve
  /\ callOut = [done |-> FALSE]

\* Everything but callOut.
allButCallOut ==
  <<world, disk, installingPackages, depGraph, visited, stack, result, chan, calls,
    runs, resolve, manifest, callIn>>

\* ParsePackageArg (utils/utils.go)
\* Here a string is the sequence of its characters.

\* Longest command-line argument.
MaxArg == 6

Chars == {"@", "/", "a"}

Strings(n) == UNION {[1..k -> Chars] : k \in 0..n}

\* strings.HasPrefix(s, "@")
HasPrefixAt(s) == Len(s) > 0 /\ s[1] = "@"

\* strings.Index(s, "@"), 0 when there is none.
IndexAt(s) ==
  IF \E i \in 1..Len(s) : s[i] = "@"
  THEN CHOOSE i \in 1..Len(s) : s[i] = "@" /\ \A j \in 1..(i - 1) : s[j] # "@"
  ELSE 0

\* strings.SplitN(s, "@", n) for n > 0: at most n substrings, the last one the unsplit
\* remainder.
RECURSIVE SplitN(_, _)
SplitN(s, n) ==
  IF n <= 1 \/ IndexAt(s) = 0 THEN <<s>>
  ELSE <<SubSeq(s, 1, IndexAt(s) - 1)>> \o SplitN(SubSeq(s, IndexAt(s) + 1, Len(s)), n - 1)

\* A variant of ParsePackageArg that splits every argument at its first "@".
ParsePackageArgPlain(arg) ==
  LET parts == SplitN(arg, 2)
  IN  IF Len(parts) = 2 THEN [name |-> parts[1], version |-> parts[2]]
      ELSE [name |-> arg, version |-> Latest]

\* ParsePackageArg(arg): (name, version)
ParsePackageArg(arg) ==
  IF HasPrefixAt(arg)
  THEN LET parts == SplitN(arg, 3)
       IN  IF Len(parts) = 3 THEN [name |-> <<"@">> \o parts[2], version |-> parts[3]]
           ELSE [name |-> arg, version |-> Latest]
  ELSE LET parts == SplitN(arg, 2)
       IN  IF Len(parts) = 2 THEN [name |-> parts[1], version |-> parts[2]]
           ELSE [name |-> arg, version |-> Latest]

InitParse ==
  /\ InitCall
  /\ manifest = <<>>
  /\ callIn \in [fn : {"ParsePackageArg"}, arg : Strings(MaxArg)]

\* packageName, packageVersion := utils.ParsePackageArg(args[2])
ParseCall ==
  /\ callIn.fn = "ParsePackageArg" /\ ~callOut.done
  /\ LET r == ParsePackageArg(callIn.arg)
     IN  callOut' = [done |-> TRUE, name |-> r.name, version |-> r.version]
  /\ UNCHANGED allButCallOut

\* run (main.go)

\* Longest os.Args.
MaxArgs == 3

Words == {"fpm", "add", "install", "remove", "A"}

\* What the handler returns when it is invoked: nil ("") or an error of its own.
HandlerErrs == {"", "handler failed"}

\* A variant of run whose default case runs the install handler.
runDefaultInstall(args, handlerErr) ==
  IF Len(args) < 2 THEN [err |-> "expected subcommand", handler |-> ""]
  ELSE IF args[2] = "add" THEN [err |-> handlerErr, handler |-> "HandleAdd"]
  ELSE [err |-> handlerErr, handler |-> "HandleInstall"]

\* run(args): the error returned and the handler invoked ("" when none was).
\* args[2] is Go's args[1].
runArgs(args, handlerErr) ==
  IF Len(args) < 2 THEN [err |-> "expected subcommand", handler |-> ""]
  ELSE IF args[2] = "add" THEN [err |-> handlerErr, handler |-> "HandleAdd"]
  ELSE IF args[2] = "install" THEN [err |-> handlerErr, handler |-> "HandleInstall"]
  ELSE [err |-> "unknown subcommand", handler |-> ""]

InitRun ==
  /\ InitCall
  /\ manifest = <<>>
  /\ callIn \in [fn : {"run"}, args : UNION {[1..k -> Words] : k \in 0..MaxArgs},
                 handlerErr : HandlerErrs]

\* err := run(os.Args)
RunCall ==
  /\ callIn.fn = "run" /\ ~callOut.done
  /\ LET r == runArgs(callIn.args, callIn.handlerErr)
     IN  callOut' = [done |-> TRUE, err |-> r.err, handler |-> r.handler]
  /\ UNCHANGED allButCallOut

\* ExtractTarball (pkgmanager/extract.go)
\* An archive is the sequence of its headers: [name, slash, type], name the segments of
\* header.Name, slash whether header.Name ends in "/", type "dir", "reg" or "symlink".

\* Longest archive, in entries.
MaxEntries == 3

\* The top directories archives wrap their content in.
Roots == {"package", "foo"}

Entries ==
  UNION {{[name |-> <<r>>, slash |-> TRUE, type |-> "dir"],
          [name |-> <<r, "lib">>, slash |-> TRUE, type |-> "dir"],
          [name |-> <<r, "index.js">>, slash |-> FALSE, type |-> "reg"],
          [name |-> <<r, "lib", "x.js">>, slash |-> FALSE, type |-> "reg"]} : r \in Roots}
    \cup {[name |-> <<"package", "ln">>, slash |-> FALSE, type |-> "symlink"],
          [name |-> <<"package", "..", "x.js">>, slash |-> FALSE, type |-> "reg"],
          [name |-> <<"package", "..", "..", "lib">>, slash |-> TRUE, type |-> "dir"]}

Archives ==
  {s \in UNION {[1..n -> Entries] : n \in 0..MaxEntries} :
     \A i, j \in 1..Len(s) : i # j => s[i] # s[j]}

\* strings.TrimPrefix(header.Name, "package/"), then the segments filepath.Join keeps.
TrimPrefix(header) ==
  IF /\ Len(header.name) >= 1 /\ header.name[1] = "package"
     /\ (Len(header.name) >= 2 \/ header.slash)
  THEN Tail(header.name)
  ELSE header.name

\* filepath.Clean on the segments of a relative path: a ".." takes back the segment
\* before it, and stays when there is none to take back.
RECURSIVE Clean(_, _)
Clean(path, done) ==
  IF path = <<>> THEN done
  ELSE IF Head(path) = ".." /\ done # <<>> /\ done[Len(done)] # ".."
  THEN Clean(Tail(path), SubSeq(done, 1, Len(done) - 1))
  ELSE Clean(Tail(path), Append(done, Head(path)))

\* filepath.Join(dir, name)
Join(dir, name) == Clean(dir \o name, <<>>)

\* filepath.Dir(path)
Dir(path) == SubSeq(path, 1, Len(path) - 1)

\* os.MkdirAll(path) on a cleaned path: the path and its parents, the working directory
\* (the empty path) left out.
MkdirAllIn(path) == {d \in MkdirAll(path) : d # <<>>}

\* A variant of ExtractFrom that skips an entry of an unsupported type.
RECURSIVE ExtractFromSkipping(_, _, _, _)
ExtractFromSkipping(archive, i, packageDir, out) ==
  IF i > Len(archive) \/ out.err # "" THEN out
  ELSE
    LET header == archive[i]
        path   == Join(packageDir, TrimPrefix(header))
    IN  IF header.type = "dir"
        THEN ExtractFromSkipping(archive, i + 1, packageDir,
                                 [out EXCEPT !.dirs = @ \cup MkdirAllIn(path)])
        ELSE IF header.type = "reg"
        THEN ExtractFromSkipping(archive, i + 1, packageDir,
                                 [out EXCEPT !.dirs = @ \cup MkdirAllIn(Dir(path)),
                                             !.regs = @ \cup {path}])
        ELSE ExtractFromSkipping(archive, i + 1, packageDir, out)

\* The loop over the archive from entry i on; out is [dirs, regs, err]: the directories
\* and the regular files made so far, and the error that ended the loop.
RECURSIVE ExtractFrom(_, _, _, _)
ExtractFrom(archive, i, packageDir, out) ==
  IF i > Len(archive) \/ out.err # "" THEN out
  ELSE
    LET header == archive[i]
        path   == Join(packageDir, TrimPrefix(header))
    IN  IF header.type = "dir"
        THEN IF MkdirAllIn(path) \cap out.regs # {}
             THEN [out EXCEPT !.err = "failed to create directory"]
             ELSE ExtractFrom(archive, i + 1, packageDir,
                              [out EXCEPT !.dirs = @ \cup MkdirAllIn(path)])
        ELSE IF header.type = "reg"
        THEN IF MkdirAllIn(Dir(path)) \cap out.regs # {}
             THEN [out EXCEPT !.err = "failed to create directory"]
             ELSE IF path \in out.dirs
             THEN [out EXCEPT !.dirs = @ \cup MkdirAllIn(Dir(path)),
                              !.err = "failed to create file"]
             ELSE ExtractFrom(archive, i + 1, packageDir,
                              [out EXCEPT !.dirs = @ \cup MkdirAllIn(Dir(path)),
                                          !.regs = @ \cup {path}])
        ELSE [out EXCEPT !.err = "unsupported tar header type"]

\* The calls of ExtractTarball that can fail for a reason outside the archive's entries:
\* os.MkdirAll(packageDir), os.Open(tarballPath), gzip.NewReader, tarReader.Next() at
\* the end of the entries (a truncated archive), and the deferred os.Remove(tarballPath).
Faults == {"mkdir", "open", "gzip", "read", "remove"}

\* ExtractTarball(tarballPath, destDir, packageName) on an archive file that exists and an
\* install tree that holds destDir only; faults are the calls that fail.  The result is
\* [dirs, regs, err, tarball]: the directories and regular files made, the error
\* returned, and whether the archive file still exists at the return.
ExtractTarball(archive, destDir, packageName, faults) ==
  LET packageDir == PackageDir(destDir, packageName)
      none == [dirs |-> MkdirAll(destDir), regs |-> {}, err |-> ""]
      made == [dirs |-> MkdirAll(packageDir), regs |-> {}, err |-> ""]
      kept == "remove" \in faults
      with(out, tarball) ==
        [dirs |-> out.dirs, regs |-> out.regs, err |-> out.err, tarball |-> tarball]
      loop == ExtractFrom(archive, 1, packageDir, made)
  IN  IF "mkdir" \in faults
      THEN with([none EXCEPT !.err = "failed to create package directory"], TRUE)
      ELSE IF "open" \in faults
      THEN with([made EXCEPT !.err = "failed to open tarball"], TRUE)
      ELSE IF "gzip" \in faults
      THEN with([made EXCEPT !.err = "failed to create gzip reader"], kept)
      ELSE IF loop.err = "" /\ "read" \in faults
      THEN with([loop EXCEPT !.err = "failed to read tarball"], kept)
      ELSE with(loop, kept)

InitExtract ==
  /\ InitCall
  /\ manifest = <<>>
  /\ callIn \in [fn : {"ExtractTarball"}, archive : Archives, packageName : {NameA},
                 faults : SUBSET Faults]

\* err := pkgmanager.ExtractTarball(tarballPath, extractDir, packageName)
ExtractCall ==
  /\ callIn.fn = "ExtractTarball" /\ ~callOut.done
  /\ LET r == ExtractTarball(callIn.archive, ExtractDir(callIn.packageName),
                             callIn.packageName, callIn.faults)
     IN  callOut' = [done |-> TRUE, err |-> r.err, dirs |-> r.dirs, regs |-> r.regs,
                     tarball |-> r.tarball]
  /\ UNCHANGED allButCallOut

\* DownloadPackage (pkgmanager/download.go)

\* The expected checksums handed to DownloadPackage: the digests of the bodies as the
\* registry writes them, one in upper case, and the empty string.
Shasums == {Hex(Sha1(b)) : b \in Bodies} \cup {<<"8", "6", "F", "7">>, <<>>}

InitDownload ==
  /\ InitCall
  /\ manifest = <<>>
  /\ callIn \in [fn : {"DownloadPackage"}, resp : Responses, expectedShasum : Shasums]

\* tarballPath, err := pkgmanager.DownloadPackage(tarballURL, expectedShasum, NodeModulesDir)
DownloadCall ==
  /\ callIn.fn = "DownloadPackage" /\ ~callOut.done
  /\ LET r == DownloadPackage(callIn.resp, callIn.expectedShasum)
     IN  callOut' = [done |-> TRUE, path |-> r.path, err |-> r.err,
                     written |-> r.written]
  /\ UNCHANGED allButCallOut

\* FetchPackageInfo (pkgmanager/fetch.go)

\* The registry documents FetchPackageInfo is called on: up to two version keys, and a
\* "latest" tag that is absent or names any version, published in the document or not.
FetchDocuments ==
  LET keys == {<<"1", "0", "0">>, <<"2", "0", "0">>, <<"1">>}
      lists == {s \in UNION {[1..n -> keys] : n \in 0..2} :
                  \A i, j \in 1..Len(s) : i # j => s[i] # s[j]}
  IN  {[hasTag |-> FALSE, latest |-> <<>>, versions |-> s] : s \in lists}
        \cup {[hasTag |-> TRUE, latest |-> v, versions |-> s] :
                v \in {<<"1", "0", "0">>, <<"2", "0", "0">>}, s \in lists}

\* The registry's answers: every status, and every choice of the entries that carry
\* "dist".
FetchResponses ==
  UNION {[status : {"error", "200 OK", "404 Not Found"}, metadata : {m},
          dist : SUBSET {m.versions[i] : i \in 1..Len(m.versions)}] :
         m \in FetchDocuments}

InitFetch ==
  /\ InitCall
  /\ manifest = <<>>
  /\ callIn \in [fn : {"FetchPackageInfo"}, resp : FetchResponses,
                 version : {Latest, <<"*">>, Caret1, Caret9, <<"next">>}]

\* packageInfo, err := pkgmanager.FetchPackageInfo(packageName, packageVersion), and
\* installPackage's reads of packageInfo.Dist["tarball"] and ["shasum"], whose type
\* assertions panic on an absent field.
FetchCall ==
  /\ callIn.fn = "FetchPackageInfo" /\ ~callOut.done
  /\ LET r == FetchPackageInfo(callIn.resp, callIn.version)
     IN  callOut' = [done |-> TRUE, ver |-> r.ver, dist |-> r.dist, err |-> r.err,
                     panics |-> r.err = "" /\ ~r.dist]
  /\ UNCHANGED allButCallOut

\* UpdatePackageJson (utils/utils.go)

\* Longest string literal of a package.json, in tokens.
MaxStr == 3

\* Largest number of top-level fields of a package.json.
MaxFields == 3

\* Largest number of entries of a dependency section.
MaxSection == 2

\* The string literals a field may hold: every token sequence that is valid JSON.
Literals ==
  {s \in UNION {[1..n -> {"\\", "u0026", "&"}] : n \in 0..MaxStr} : DecodeString(s, 1).ok}

\* The dependency sections: distinct package names in any order.
Sections ==
  {s \in UNION {[1..n -> [key : Names, val : {<<"1", "0", "0">>}]] : n \in 0..MaxSection} :
     \A i, j \in 1..Len(s) : i # j => s[i].key # s[j].key}

\* The top-level fields: a description, the two dependency sections, and a
\* "dependencies" that is a string.
Fields ==
  [key : {"description"}, kind : {"str"}, str : Literals, obj : {<<>>}]
    \cup [key : {"dependencies", "devDependencies"}, kind : {"obj"}, str : {<<>>},
          obj : Sections]
    \cup [key : {"dependencies"}, kind : {"str"}, str : {<<"&">>}, obj : {<<>>}]

FieldKeys == {f.key : f \in Fields}

\* The orders in which a file may hold some of the keys, no key twice.
KeyLists ==
  {ks \in UNION {[1..n -> FieldKeys] : n \in 0..MaxFields} :
     \A i, j \in 1..Len(ks) : i # j => ks[i] # ks[j]}

\* The files whose keys are ks, in that order.
RECURSIVE FilesOf(_)
FilesOf(ks) ==
  IF ks = <<>> THEN {<<>>}
  ELSE {<<f>> \o rest : f \in {x \in Fields : x.key = Head(ks)}, rest \in FilesOf(Tail(ks))}

ManifestFiles == UNION {FilesOf(ks) : ks \in KeyLists}

InitUpdate ==
  /\ InitCall
  /\ manifest \in ManifestFiles
  /\ callIn \in [fn : {"UpdatePackageJson"},
                 newDependencies : [name : {NameA}, version : {<<"2", "0", "0">>}],
                 forDev : BOOLEAN, escapeHTML : BOOLEAN]

\* err = utils.UpdatePackageJson(PackageJsonPath, map[string]string{...}, forDevDependency)
UpdateCall ==
  /\ callIn.fn = "UpdatePackageJson" /\ ~callOut.done
  /\ LET r == UpdatePackageJson(manifest, callIn.newDependencies, callIn.forDev,
                                callIn.escapeHTML)
     IN  /\ manifest' = r.file
         /\ callOut' = [done |-> TRUE, err |-> r.err, before |-> manifest]
  /\ UNCHANGED <<world, disk, installingPackages, depGraph, visited, stack, result, chan,
                 calls, runs, resolve, callIn>>

\* The functions together

InitCalls ==
  InitParse \/ InitRun \/ InitExtract \/ InitDownload \/ InitFetch \/ InitUpdate

NextCalls ==
  ParseCall \/ RunCall \/ ExtractCall \/ DownloadCall \/ FetchCall \/ UpdateCall

SpecCalls == InitCalls /\ [][NextCalls]_vars

\* The install run, resolveVersion and the functions called on their own, together.
NextAll == Next \/ NextResolve \/ NextCalls

SpecAll == (Init \/ InitResolve \/ InitCalls) /\ [][NextAll]_vars

(***************************************************************************)
(* Part 6b.  fpm add: HandleAdd                                            *)
(***************************************************************************)

\* The ranges `fpm add name@range` is run with.
AddRanges == {Latest, Caret1, Caret9}

\* The package.json files `fpm add` is run on.
AddManifests ==
  { <<>>,
    <<[key |-> "dependencies", kind |-> "obj", str |-> <<>>,
       obj |-> <<[key |-> NameB, val |-> <<"1", "0", "0">>]>>]>> }

\* The install tree in which the packages of `present` are installed, each with its
\* package.json.
TreeWith(present) == {NodeModulesDir} \cup UNION {MkdirAll(PackagePath(n)) : n \in present}

FilesWith(present) ==
  {[dir |-> PackagePath(n), pkg |-> n, ver |-> <<"1", "0", "0">>] : n \in present}

\* HandleAdd has parsed its argument into the one task of the run, found package.json,
\* made node_modules, and is about to call RunInstallPackage.  callIn keeps the
\* package.json HandleAdd was started on.
InitAdd ==
  /\ tasks \in {{t} : t \in [name : Names, range : AddRanges, dev : BOOLEAN]}
  /\ decl \in {d \in Decls : \A n \in Names \ Wanted(d, tasks) : d[n] = {}}
  /\ \E present \in SUBSET {NameA, NameB} :
       tree = TreeWith(present) /\ files = FilesWith(present)
  /\ installingPackages = {}
  /\ depGraph = EmptyGraph
  /\ visited = [t \in tasks |-> {}]
  /\ stack = [t \in tasks |-> <<NewFrame(t.name, t.range)>>]
  /\ result = [t \in tasks |-> NoResult]
  /\ errChan = <<>>
  /\ closed = TRUE
  /\ main = [pc |-> "add", err |-> ""]
  /\ resolved = [n \in Names |-> 0]
  /\ fetched = [n \in Names |-> 0]
  /\ extracted = [n \in Names |-> 0]
  /\ failures = {}
  /\ run = 1
  /\ firstRun = ""
  /\ NoResolve
  /\ manifest \in AddManifests
  /\ callIn = [fn |-> "HandleAdd", file |-> manifest]
  /\ callOut = [done |-> TRUE]

\* HandleAdd after RunInstallPackage has returned: return its error, or write the
\* returned version into package.json with UpdatePackageJson.
AddEnd ==
  /\ main.pc = "add"
  /\ \E t \in tasks :
       /\ ~Running(t) /\ result[t].pc \in {"send", "done"}
       /\ result' = [result EXCEPT ![t].pc = "done"]
       /\ IF result[t].err # ""
          THEN /\ main' = [pc |-> "returned", err |-> result[t].err]
               /\ UNCHANGED manifest
          ELSE \E escapeHTML \in BOOLEAN :
                 LET r == UpdatePackageJson(manifest,
                                            [name |-> t.name, version |-> result[t].ver],
                                            t.dev, escapeHTML)
                 IN  /\ manifest' = r.file
                     /\ main' = [pc |-> "returned",
                                 err |-> IF r.err # "" THEN "failed to update package.json"
                                         ELSE ""]
  /\ UNCHANGED <<world, disk, installingPackages, depGraph, visited, stack, errChan,
                 closed, calls, runs, resolve, callIn, callOut>>

\* The steps of `fpm add`.  The one goroutine never finds a name in progress: the edge
\* that would lead back to a name on its stack closes a cycle and is rejected, and the
\* rejection skips the recursive call.
NextAdd ==
  \/ SomeEnter
  \/ SomeResolveFail
  \/ SomeDownloadFail
  \/ SomeExtractFail
  \/ SomeInstall
  \/ SomeDepNext
  \/ SomeEdgeAdd
  \/ SomeLeave
  \/ AddEnd

SpecAdd == InitAdd /\ [][NextAdd]_vars

(***************************************************************************)
(* Part 6c.  One direct dependency whose tree declares siblings:           *)
(*           processPackageJson's loop over several entries.               *)
(***************************************************************************)

\* Largest number of dependencies a package manifest declares in these runs.
MaxSiblings == 2

\* The declaration graphs with up to MaxSiblings entries per package.json.
SiblingDecls ==
  {d \in [Names -> SUBSET Names] : \A n \in Names : Cardinality(d[n]) <= MaxSiblings}

\* HandleInstall on a package.json with one entry under "dependencies".
InitTree ==
  /\ tasks \in {{t} : t \in [name : Names, range : TaskRanges, dev : {FALSE}]}
  /\ decl \in {d \in SiblingDecls : \A n \in Names \ Wanted(d, tasks) : d[n] = {}}
  /\ tree = {NodeModulesDir}
  /\ files = {}
  /\ FreshProcess(tasks)
  /\ run = 1
  /\ firstRun = ""
  /\ NoResolve
  /\ NoCall

\* The steps of that run.  As in `fpm add`, the one goroutine never finds a name in
\* progress.
NextTree ==
  \/ SomeEnter
  \/ SomeResolveFail
  \/ SomeDownloadFail
  \/ SomeExtractFail
  \/ SomeInstall
  \/ SomeDepNext
  \/ SomeEdgeAdd
  \/ SomeLeave
  \/ SomeSend
  \/ CloseChan
  \/ MainRecv
  \/ MainEnd

SpecTree == InitTree /\ [][NextTree]_vars

(***************************************************************************)
(* Part 7.  The properties                                                 *)
(***************************************************************************)

\* Every installPackage call of every goroutine has returned.
Terminated == \A t \in tasks : ~Running(t)

\* The frames of all goroutines.
Frames == UNION {{stack[t][i] : i \in 1..Len(stack[t])} : t \in tasks}

\* A frame at a return statement of a call that set the marker.
Returning(f) == f.pc = "ret" \/ (f.pc = "deps" /\ f.todo = {})

\* C1: within one install run no package name is downloaded or extracted more than
\* once.  Stated for the runs in which no resolve, download or extract call has failed,
\* which the claim covers too.
C1_AtMostOnce ==
  failures = {} => \A n \in Names : fetched[n] <= 1 /\ extracted[n] <= 1

C3_Acyclic ==
  \A n \in depGraph.V :
    n \notin ReachFrom(depGraph.E, {e[2] : e \in {x \in depGraph.E : x[1] = n}})

\* The project manifest names one package, and that package and another declare each
\* other.
CycleWorld ==
  /\ Cardinality(tasks) = 1
  /\ \A t \in tasks : \E b \in Names \ {t.name} : b \in decl[t.name] /\ t.name \in decl[b]

\* The package.json of package n is in the install tree.
HasManifest(n) == \E f \in files : f.pkg = n

\* C4: with A and B declaring each other, installPackage(A) returns, and if no resolve,
\* download or extract call failed then A was downloaded and extracted exactly once, and
\* so was B, the dependency A's package.json declares.
C4_CycleInstallsOnce ==
  /\ CycleWorld => <>Terminated
  /\ [](CycleWorld /\ Terminated /\ failures = {} =>
          \A t \in tasks :
            /\ fetched[t.name] = 1 /\ extracted[t.name] = 1
            /\ HasManifest(t.name) =>
                 \A b \in decl[t.name] : fetched[b] = 1 /\ extracted[b] = 1)

\* C4 witness: the run is over, and both packages of the cycle were downloaded and
\* extracted.
C4_Witness ==
  /\ CycleWorld /\ Terminated /\ failures = {}
  /\ \A t \in tasks :
       /\ extracted[t.name] = 1
       /\ \E b \in decl[t.name] : extracted[b] = 1 /\ depGraph.E = {<<t.name, b>>}

\* The dependencies the package.json in n's package directory declares.
DeclaredOnDisk(n) == UNION {decl[f.pkg] : f \in {x \in files : x.dir = PackagePath(n)}}

\* The declared dependencies of n, direct and transitive, with no package directory.
MissingDeps(n) ==
  {d \in ReachFrom({e \in Names \X Names : e[2] \in DeclaredOnDisk(e[1])}, {n}) :
     PackagePath(d) \notin tree}

\* C5: a call for a package whose directory exists while a dependency it declares is
\* missing does not take the already-installed return.
C5_NoShortCircuit ==
  [][\A t \in tasks :
       ( /\ Running(t) /\ Top(t).pc = "enter"
         /\ Top(t).name \notin installingPackages
         /\ Top(t).name \notin visited[t]
         /\ PackagePath(Top(t).name) \in tree
         /\ MissingDeps(Top(t).name) # {}
         /\ Len(stack'[t]) = Len(stack[t]) )
       => stack'[t][Len(stack'[t])].pc # "ret"]_vars

\* C6: after a first run that returned nil, a second run over the same manifest and the
\* unchanged install tree calls neither FetchPackageInfo nor DownloadPackage.
C6_SecondRunNoNetwork ==
  (run = 2 /\ firstRun = "ok") => \A n \in Names : resolved[n] = 0 /\ fetched[n] = 0

\* C7: once a scoped package has been extracted without failure, the directory the
\* already-installed check inspects for it exists.
C7_ScopedInstalledWhereChecked ==
  \A n \in Names :
    (IsScoped(n) /\ extracted[n] > 0 /\ n \notin failures) => PackagePath(n) \in tree

\* The published versions that parse and satisfy the range.
Satisfying(versions, range) ==
  {i \in 1..Len(versions) :
     NewVersion(versions[i]).ok /\ Check(NewConstraint(range), NewVersion(versions[i]))}

\* C8: for a parseable range other than "latest" that some parseable published version
\* satisfies, resolveVersion returns a satisfying version that no satisfying published
\* version exceeds.
C8_ReturnsGreatest ==
  LET versions == resolveIn.metadata.versions
      range    == resolveIn.range
  IN  ( /\ resolveOut.done
        /\ range # Latest /\ NewConstraint(range).ok
        /\ Satisfying(versions, range) # {} )
      => /\ resolveOut.err = ""
         /\ \E i \in Satisfying(versions, range) : versions[i] = resolveOut.ver
         /\ \A i \in Satisfying(versions, range) :
              Compare(NewVersion(versions[i]), NewVersion(resolveOut.ver)) <= 0

\* C9: for the range "latest", resolveVersion returns the version the "latest" dist-tag
\* names, and no error.
C9_LatestIsTag ==
  (resolveOut.done /\ resolveIn.range = Latest /\ resolveIn.metadata.hasTag)
    => resolveOut.ver = resolveIn.metadata.latest /\ resolveOut.err = ""

\* C9 witness: "latest" was resolved to the tagged version although a higher version is
\* published.
C9_Witness ==
  /\ resolveOut.done /\ resolveIn.range = Latest /\ resolveIn.metadata.hasTag
  /\ resolveOut.ver = resolveIn.metadata.latest
  /\ \E i \in 1..Len(resolveIn.metadata.versions) :
       /\ NewVersion(resolveIn.metadata.versions[i]).ok
       /\ GreaterThan(NewVersion(resolveIn.metadata.versions[i]),
                      NewVersion(resolveIn.metadata.latest))

\* C10: for a parseable range that no parseable published version satisfies (an empty
\* version set included), resolveVersion returns the no-matching-version error and no
\* version; and an installPackage call about to resolve such a range returns the
\* resolver's failure without any download or extraction and without touching the
\* install tree.
C10_NoMatchNoDownload ==
  /\ []( ( /\ resolveOut.done
           /\ NewConstraint(resolveIn.range).ok
           /\ Satisfying(resolveIn.metadata.versions, resolveIn.range) = {} )
         => resolveOut.err = "nomatch" /\ resolveOut.ver = <<>> )
  /\ [][\A t \in tasks :
          ( /\ Running(t) /\ Top(t).pc = "fetch"
            /\ NewConstraint(Top(t).range).ok
            /\ Satisfying(RegistryDoc.versions, Top(t).range) = {}
            /\ Len(stack'[t]) = Len(stack[t])
            /\ stack'[t][Len(stack'[t])].pc # "fetch" )
          => /\ stack'[t][Len(stack'[t])].pc = "ret"
             /\ stack'[t][Len(stack'[t])].err = "resolve"
             /\ fetched' = fetched /\ extracted' = extracted
             /\ tree' = tree /\ files' = files]_vars

\* C10 witness: an installPackage call asked for ^9.0.0, which nothing published
\* satisfies, and is returning the resolver's failure with nothing downloaded.
C10_Witness ==
  \E t \in tasks :
    /\ Running(t) /\ Top(t).pc = "ret" /\ Top(t).err = "resolve"
    /\ Top(t).range = Caret9
    /\ resolved[Top(t).name] = 1 /\ fetched[Top(t).name] = 0

\* C11: DownloadPackage returns an error and no path whenever the expected checksum is
\* not the SHA-1 of the bytes served, the checksum-mismatch error when the bytes were
\* received; and an installPackage call whose download failed on the checksum returns
\* an error without calling ExtractTarball and without adding the vertex.
C11_MismatchNoExtract ==
  /\ []( ( /\ callIn.fn = "DownloadPackage" /\ callOut.done
           /\ callIn.expectedShasum # Hex(Sha1(callIn.resp.body)) )
         => /\ callOut.err # "" /\ callOut.path = ""
            /\ callIn.resp.status = "200 OK" => callOut.err = "checksum mismatch" )
  /\ [][\A t \in tasks :
          ( /\ Running(t) /\ Top(t).pc = "fetch"
            /\ Len(stack'[t]) = Len(stack[t])
            /\ stack'[t][Len(stack'[t])].err = "checksum" )
          => /\ stack'[t][Len(stack'[t])].pc = "ret"
             /\ fetched'[Top(t).name] = fetched[Top(t).name] + 1
             /\ extracted' = extracted
             /\ depGraph' = depGraph
             /\ tree' = tree /\ files' = files]_vars

\* C11 witness: an installPackage call is returning the checksum failure of its
\* download, with nothing extracted and no vertex of its own.
C11_Witness ==
  \E t \in tasks :
    /\ Running(t) /\ Top(t).pc = "ret" /\ Top(t).err = "checksum"
    /\ fetched[Top(t).name] = 1 /\ extracted[Top(t).name] = 0
    /\ Top(t).name \notin depGraph.V

\* C12: ExtractTarball reproduces every entry of an archive of directories and regular
\* files under destRoot/packageName, at the entry's path without its first segment
\* (stated for the calls in which no file system or reader call fails and for entry
\* paths without ".." segments).
C12_StripsFirstSegment ==
  ( /\ callIn.fn = "ExtractTarball" /\ callOut.done
    /\ callIn.faults = {}
    /\ \A i \in 1..Len(callIn.archive) :
         /\ callIn.archive[i].type \in {"dir", "reg"}
         /\ \A k \in 1..Len(callIn.archive[i].name) : callIn.archive[i].name[k] # ".." )
  => /\ callOut.err = ""
     /\ \A i \in 1..Len(callIn.archive) :
          LET header == callIn.archive[i]
              path == PackageDir(ExtractDir(callIn.packageName), callIn.packageName)
                        \o Tail(header.name)
          IN  /\ header.type = "dir" => path \in callOut.dirs
              /\ header.type = "reg" => path \in callOut.regs

\* The package directory of n exists, where the installed check looks for it or where
\* ExtractTarball makes it.
OnDisk(n) == PackagePath(n) \in tree \/ PackageDir(ExtractDir(n), n) \in tree

\* C13: when HandleInstall returns nil, every direct dependency of the manifest has its
\* package directory in the install tree.
C13_NilMeansInstalled ==
  (main.pc = "returned" /\ main.err = "") =>
    \A t \in tasks : OnDisk(t.name)

\* Task t has returned from RunInstallPackage with an error.
Reported(t) == result[t].pc \in {"send", "done"} /\ result[t].err # ""

AddedSection(t) ==
  LET doc == ParsePackageJson(manifest).doc
      dependencyKey == IF t.dev THEN "devDependencies" ELSE "dependencies"
  IN  IF IndexOf(doc, dependencyKey) = 0 THEN <<>>
      ELSE doc[IndexOf(doc, dependencyKey)].obj

\* C15: when a resolve, download or extract call failed for the added package or for a
\* package of its dependency tree, HandleAdd returns an error and package.json is as it
\* was.
C15_AddFailsOnAnyFailure ==
  (main.pc = "returned" /\ callIn.fn = "HandleAdd" /\ failures # {}) =>
    main.err # "" /\ manifest = callIn.file

\* C16: after a successful add the entry written for the package is the version the
\* registry resolves for the requested range.
C16_WritesResolvedVersion ==
  (main.pc = "returned" /\ callIn.fn = "HandleAdd" /\ main.err = "") =>
    \A t \in tasks :
      LET section == AddedSection(t)
          r == resolveVersion(RegistryDoc, t.range)
      IN  /\ IndexOf(section, t.name) # 0
          /\ r.err = ""
          /\ section[IndexOf(section, t.name)].val = r.ver

\* The fields of a document other than the one of the given key, in their order.
Others(doc, key) ==
  LET other(field) == field.key # key IN SelectSeq(doc, other)

\* C17: UpdatePackageJson leaves every field but the targeted section with its value and
\* in its place among the others, and writes the targeted section's keys in
\* lexicographic order.
C17_OnlyTargetSection ==
  (callIn.fn = "UpdatePackageJson" /\ callOut.done /\ callOut.err = "") =>
    LET dependencyKey == IF callIn.forDev THEN "devDependencies" ELSE "dependencies"
        before == ParsePackageJson(callOut.before)
        after  == ParsePackageJson(manifest)
        section == after.doc[IndexOf(after.doc, dependencyKey)].obj
    IN  /\ after.err = ""
        /\ Others(after.doc, dependencyKey) = Others(before.doc, dependencyKey)
        /\ IndexOf(after.doc, dependencyKey) # 0
        /\ \A i, j \in 1..Len(section) :
             i < j => FirstByte(section[i].key) < FirstByte(section[j].key)

\* The ranges the run asks package n for: those of the project manifest, and the one of
\* every installed package.json that declares n.
RequestedRanges(n) ==
  {t.range : t \in {u \in tasks : u.name = n}}
    \cup {DeclRange : m \in {x \in Names : HasManifest(x) /\ n \in decl[x]}}

\* C18: at the end of a run without failures, the installed version of a package is not
\* below the version any of the ranges asked for it resolves to.
C18_HighestWins ==
  (Terminated /\ failures = {}) =>
    \A f \in files : \A r \in RequestedRanges(f.pkg) :
      resolveVersion(RegistryDoc, r).err = ""
        => ~GreaterThan(NewVersion(resolveVersion(RegistryDoc, r).ver), NewVersion(f.ver))

\* The usage errors of run.
UsageErrors == {"expected subcommand", "unknown subcommand"}

\* C19: run invokes a handler exactly when the subcommand is "add" or "install", the
\* matching one, and returns that handler's result unchanged; otherwise it invokes none
\* and returns a usage error.
C19_RunDispatches ==
  (callIn.fn = "run" /\ callOut.done) =>
    LET args == callIn.args
        sub  == IF Len(args) >= 2 THEN args[2] ELSE ""
    IN  /\ (callOut.handler # "") <=> (sub \in {"add", "install"})
        /\ sub = "add" => callOut.handler = "HandleAdd" /\ callOut.err = callIn.handlerErr
        /\ sub = "install" =>
             callOut.handler = "HandleInstall" /\ callOut.err = callIn.handlerErr
        /\ sub \notin {"add", "install"} => callOut.err \in UsageErrors

\* C19 witness: "fpm install" returned the install handler's error.
C19_Witness ==
  /\ callIn.fn = "run" /\ callOut.done
  /\ callIn.args = <<"fpm", "install">> /\ callIn.handlerErr = "handler failed"
  /\ callOut.handler = "HandleInstall" /\ callOut.err = "handler failed"

\* Package names as command-line text: plain names (no "@", no "/") and scoped names
\* "@scope/pkg".
PlainArgNames == {s \in Strings(MaxArg) : s # <<>> /\ \A i \in 1..Len(s) : s[i] = "a"}

ScopedArgNames == {<<"@">> \o a \o <<"/">> \o b : a, b \in {<<"a">>, <<"a", "a">>}}

\* C20: ParsePackageArg(name + "@" + range) = (name, range) for every plain or scoped
\* name and non-empty range, and ParsePackageArg(name) = (name, "latest").
C20_ParseSplits ==
  (callIn.fn = "ParsePackageArg" /\ callOut.done) =>
    \A name \in PlainArgNames \cup ScopedArgNames :
      /\ callIn.arg = name => callOut.name = name /\ callOut.version = Latest
      /\ \A range \in Strings(MaxArg) \ {<<>>} :
           callIn.arg = name \o <<"@">> \o range
             => callOut.name = name /\ callOut.version = range

\* C20 witness: a scoped name with a range was split into the two.
C20_Witness ==
  /\ callIn.fn = "ParsePackageArg" /\ callOut.done
  /\ callIn.arg = <<"@", "a", "/", "a", "@", "a">>
  /\ callOut.name = <<"@", "a", "/", "a">> /\ callOut.version = <<"a">>

\* The installPackage calls for name n that are past the in-progress guard, as
\* <<task, depth>> positions.
PastGuard(n) ==
  UNION {{<<t, i>> : i \in {j \in 1..Len(stack[t]) :
                             stack[t][j].name = n /\ stack[t][j].pc # "enter"}} :
         t \in tasks}

\* C21: at most one installPackage call per name is past the in-progress guard, and it
\* holds the marker; a call that returns at the guard leaves the marker in place.
C21_OneHolder ==
  /\ [](\A n \in Names :
          /\ Cardinality(PastGuard(n)) <= 1
          /\ PastGuard(n) # {} => n \in installingPackages)
  /\ [][\A t \in tasks :
          ( /\ Running(t) /\ Top(t).pc = "enter"
            /\ Top(t).name \in installingPackages
            /\ Len(stack'[t]) < Len(stack[t]) )
          => installingPackages' = installingPackages]_vars

\* C21 witness: a call has returned at the guard while the call of another goroutine
\* for the same name is still past it, with the marker set.
C21_Witness ==
  \E t \in tasks :
    /\ result[t].busy
    /\ PastGuard(result[t].name) # {}
    /\ result[t].name \in installingPackages

\* C22: a call that finds its name in progress can return at once, and its return gives
\* the requested range and no error and changes neither the in-progress set, the
\* visited maps, the graph, the install tree nor the counts of resolver and fetcher calls.
C22_BusyFrame ==
  /\ [](\A t \in tasks :
          (Running(t) /\ Top(t).pc = "enter" /\ Top(t).name \in installingPackages)
            => ENABLED EnterBusy(t))
  /\ [][\A t \in tasks :
          ( /\ Running(t) /\ Top(t).pc = "enter"
            /\ Top(t).name \in installingPackages
            /\ \/ Len(stack'[t]) # Len(stack[t])
               \/ stack'[t][Len(stack[t])].pc # "enter" )
          => /\ Len(stack'[t]) = Len(stack[t]) - 1
             /\ result'[t].busy
             /\ result'[t].ver = Top(t).range /\ result'[t].err = ""
             /\ installingPackages' = installingPackages
             /\ visited' = visited /\ depGraph' = depGraph
             /\ tree' = tree /\ files' = files
             /\ resolved' = resolved /\ fetched' = fetched
             /\ extracted' = extracted]_vars

\* C22 witness: a nested call, made from processPackageJson, has returned at the guard
\* with the range the manifest declares.
C22_Witness ==
  \E t \in tasks :
    /\ result[t].busy /\ result[t].pc = "run" /\ Running(t)
    /\ result[t].ver = DeclRange
    /\ result[t].name \in installingPackages

C24_DrainedAtReturn ==
  main.pc = "returned" => \A t \in tasks : result[t].pc = "done"

C26_InstallAfterRejection ==
  [][\A t \in tasks :
       ( /\ Running(t) /\ Top(t).pc = "deps"
         /\ Len(stack'[t]) >= Len(stack[t])
         /\ stack'[t][Len(stack[t])].todo # Top(t).todo )
       => \E depName \in Top(t).todo :
            /\ stack'[t][Len(stack[t])].todo = Top(t).todo \ {depName}
            /\ \/ stack'[t][Len(stack[t])].pc = "edge"
               \/ /\ Len(stack'[t]) = Len(stack[t]) + 1
                  /\ stack'[t][Len(stack'[t])].name = depName]_vars

\* C27: when a nested installPackage call returns an error, the calling
\* processPackageJson loop goes on as it was, with the same entries still to come and no
\* error of its own; and once every call has returned after such failures, every entry
\* of every package.json that was processed has been ranged over (it is a vertex).
C27_SiblingsAttempted ==
  /\ [][\A t \in tasks :
          ( /\ Len(stack[t]) >= 2 /\ Top(t).err # ""
            /\ Len(stack'[t]) < Len(stack[t]) )
          => /\ stack'[t][Len(stack'[t])] = stack[t][Len(stack[t]) - 1]
             /\ stack'[t][Len(stack'[t])].pc = "deps"
             /\ stack'[t][Len(stack'[t])].err = ""]_vars
  /\ [](Terminated =>
          \A t \in tasks :
            (~Installed(t.name) /\ result[t].err = "") =>
              \A m \in findPackageJson(files, t.name) : decl[m.pkg] \subseteq depGraph.V)
  /\ [](\A f \in Frames : f.pc \in {"deps", "edge"} => f.err = "")

\* C27 witness: the direct dependency declares two packages; the install of one of them
\* failed, the other was installed afterwards, and the direct dependency returned no
\* error.
C27_Witness ==
  \E t \in tasks :
    /\ ~Running(t) /\ result[t].pc = "done" /\ result[t].err = ""
    /\ Cardinality(decl[t.name] \ {t.name}) = 2
    /\ \E a, b \in decl[t.name] \ {t.name} :
         /\ a # b /\ a \in failures /\ extracted[a] = 0
         /\ b \notin failures /\ extracted[b] = 1 /\ resolved[a] = 1

\* C28: when ExtractTarball has returned, with nil or with any error, and the deferred
\* os.Remove did not fail, the archive file no longer exists.
C28_ArchiveDeleted ==
  ( /\ callIn.fn = "ExtractTarball" /\ callOut.done
    /\ "remove" \notin callIn.faults )
  => ~callOut.tarball

\* The position of the first entry of an archive that is neither a directory nor a
\* regular file, 0 when there is none.
FirstUnsupported(archive) ==
  LET bad == {i \in 1..Len(archive) : archive[i].type \notin {"dir", "reg"}}
  IN  IF bad = {} THEN 0 ELSE CHOOSE i \in bad : \A j \in bad : i <= j

\* C29: when the entries before the first unsupported entry are extracted without an
\* error, ExtractTarball returns the unsupported-entry error and has made exactly the
\* directories and files it makes for the archive that ends before that entry.
C29_UnsupportedAborts ==
  ( /\ callIn.fn = "ExtractTarball" /\ callOut.done
    /\ callIn.faults \cap {"mkdir", "open", "gzip"} = {}
    /\ FirstUnsupported(callIn.archive) # 0 )
  => LET before == ExtractTarball(SubSeq(callIn.archive, 1,
                                         FirstUnsupported(callIn.archive) - 1),
                                  ExtractDir(callIn.packageName), callIn.packageName, {})
     IN  before.err = ""
           => /\ callOut.err = "unsupported tar header type"
              /\ callOut.dirs = before.dirs
              /\ callOut.regs = before.regs

\* C29 witness: a directory entry, then a symlink, then a regular file: the error is
\* returned, the directory was made and the file was not.
C29_Witness ==
  /\ callIn.fn = "ExtractTarball" /\ callOut.done
  /\ callIn.faults = {}
  /\ callIn.archive = <<[name |-> <<"package", "lib">>, slash |-> TRUE, type |-> "dir"],
                        [name |-> <<"package", "ln">>, slash |-> FALSE, type |-> "symlink"],
                        [name |-> <<"package", "index.js">>, slash |-> FALSE,
                         type |-> "reg"]>>
  /\ callOut.err = "unsupported tar header type"
  /\ NodeModulesDir \o NameA \o <<"lib">> \in callOut.dirs
  /\ callOut.regs = {}

\* Path p is dir or lies below it.
Inside(dir, p) == Len(p) >= Len(dir) /\ SubSeq(p, 1, Len(dir)) = dir

\* C30: every regular file ExtractTarball writes, and every directory it makes apart
\* from the package directory's own parents, lies inside destRoot/packageName.
C30_StaysInside ==
  (callIn.fn = "ExtractTarball" /\ callOut.done) =>
    LET packageDir == PackageDir(ExtractDir(callIn.packageName), callIn.packageName)
    IN  \A p \in callOut.regs \cup (callOut.dirs \ MkdirAll(packageDir)) :
          Inside(packageDir, p)

\* C31: whenever FetchPackageInfo returns no error, the "versions" map has an entry for
\* the version resolveVersion returned, the result is that entry, and it carries the
\* tarball URL and the checksum; so installPackage's reads of the two fields never
\* panic.
C31_FetchedEntry ==
  (callIn.fn = "FetchPackageInfo" /\ callOut.done /\ callOut.err = "") =>
    LET metadata == callIn.resp.metadata
        r == resolveVersion(metadata, callIn.version)
    IN  /\ r.err = ""
        /\ \E i \in 1..Len(metadata.versions) : metadata.versions[i] = r.ver
        /\ callOut.ver = r.ver
        /\ callOut.dist /\ ~callOut.panics

=============================================================================
